---- MODULE Spec2Model ----
(***************************************************************************)
(* StereoTUM.Dataset (src/StereoTUM/dataset.py): the loaded record, its    *)
(* timeline, the point query dataset[s], the range query dataset[a:b] and  *)
(* the rolling shutter accessor.                                           *)
(*                                                                         *)
(* A csv file is modelled by its first column (the time stamps), one entry *)
(* per data row; a sample is named by the index of its row.  Time stamps   *)
(* are integers (ticks): the code only compares them (==, <, >).           *)
(***************************************************************************)
EXTENDS Integers, Sequences, FiniteSets, TLC

VARIABLES status, frames, imu, ground_truth, times, time, refs, cams, iters, result

vars == <<status, frames, imu, ground_truth, times, time, refs, cams, iters, result>>

\* ----------------------------------------------------------------- bounds
\* recorded time stamps are 1..MaxT; queries may also ask for 0 and MaxT+1
MaxT == 3
\* data rows per csv file
MaxRows == 2
\* entries of params.yaml
MaxRefs == 2

\* Python's None, for a slice bound, a slice step and an absent field
None == -9

Stamps == 1..MaxT
QueryStamps == 0..(MaxT + 1)
SliceBounds == {None} \cup Stamps
Steps == {None, -1}
Speeds == {1, 2}
Iters == {1, 2}

\* ------------------------------------------------------------ the loader
\* set(a[:,0]): the set of the values of the first column
ColSet(a) == {a[k] : k \in DOMAIN a}

SetMin(S) == CHOOSE m \in S : \A x \in S : m <= x

\* sorted(S): the elements of a set in ascending order
RECURSIVE Sorted(_)
Sorted(S) == IF S = {} THEN <<>> ELSE <<SetMin(S)>> \o Sorted(S \ {SetMin(S)})

\* variant: the ground truth left out of the union
BuildTimesNoGroundTruth(f, i, g) == Sorted(ColSet(f) \cup ColSet(i))

\* self._times = list(sorted(set(frames[:,0]) | set(imu[:,0]) | set(ground_truth[:,0])))
BuildTimes(f, i, g) == Sorted(ColSet(f) \cup ColSet(i) \cup ColSet(g))

\* np.genfromtxt gives a 2-d array only for two data rows or more: with one row
\* (a 1-d array) or none (an empty 1-d array) a[:,0] raises IndexError and the
\* constructor fails
Is2d(a) == Len(a) >= 2

\* the loop over self._refs: "world" is skipped, every other reference needs a
\* 'transform', and a reference with a 'shutter' is a camera
RECURSIVE CamsLoop(_, _, _)
CamsLoop(r, k, acc) ==
    IF k > Len(r) THEN [ok |-> TRUE, cams |-> acc]
    ELSE IF r[k].name = "world" THEN CamsLoop(r, k + 1, acc)
    ELSE IF ~r[k].transform THEN [ok |-> FALSE, cams |-> acc]
    ELSE IF ~r[k].hasShutter THEN CamsLoop(r, k + 1, acc)
    ELSE CamsLoop(r, k + 1, Append(acc, r[k]))

NoData == [stamp |-> None, global_ |-> None, rolling |-> None, imu |-> None, groundtruth |-> None]
NoResult == [kind |-> "none", val |-> None, data |-> NoData, list |-> <<>>]
NoIter == [state |-> "none", start |-> None, stop |-> None, pos |-> 0, out |-> <<>>]
NoTime == [start |-> None, end |-> None, duration |-> None]

\* Dataset.__init__ on the files' contents: f, i, g the csv files, t the 'time'
\* entry of time.yaml, r params.yaml in iteration order.  The folders and files
\* checked with _check_folder_exists/_check_file_exists are taken to exist.
Load(f, i, g, t, r) ==
    /\ frames = f
    /\ imu = i
    /\ ground_truth = g
    /\ iters = [n \in Iters |-> NoIter]
    /\ result = NoResult
    /\ IF ~(Is2d(f) /\ Is2d(i) /\ Is2d(g))
       THEN /\ status = "IndexError"
            /\ times = <<>> /\ time = NoTime /\ refs = <<>> /\ cams = <<>>
       ELSE /\ times = BuildTimes(f, i, g)
            /\ time = t
            /\ refs = r
            /\ cams = CamsLoop(r, 1, <<>>).cams
            /\ status = IF CamsLoop(r, 1, <<>>).ok THEN "ready" ELSE "ValueError"

\* ---------------------------------------------------------------- inputs
SeqsUpTo(S, lo, hi) == UNION {[1..n -> S] : n \in lo..hi}

IsIncreasing(s) == \A k \in 1..(Len(s) - 1) : s[k] < s[k + 1]

\* csv files as the recorder writes them: ascending, one row per time stamp
Streams == {s \in SeqsUpTo(Stamps, 2, MaxRows) : IsIncreasing(s)}

\* csv files of any content, too short ones included
AnyStreams == SeqsUpTo(Stamps, 0, MaxRows)

Ref(n, tr, sh, ty, sp) == [name |-> n, transform |-> tr, hasShutter |-> sh, type |-> ty, speed |-> sp]

\* a usual params.yaml: the world, a global shutter and a rolling shutter camera
DefaultRefs ==
    << Ref("world", FALSE, FALSE, "", 0),
       Ref("cam1", TRUE, TRUE, "global", 0),
       Ref("cam2", TRUE, TRUE, "rolling", 1) >>

\* params.yaml of any content: references with distinct names, each with or
\* without a transform and a shutter
RefNames == {"world", "cam1", "cam2", "imu"}

RefEntries ==
    {Ref(n, tr, FALSE, "", 0) : n \in RefNames, tr \in BOOLEAN}
    \cup {Ref(n, tr, TRUE, "global", 0) : n \in RefNames, tr \in BOOLEAN}
    \cup UNION {{Ref(n, tr, TRUE, "rolling", sp) : n \in RefNames, tr \in BOOLEAN} : sp \in Speeds}

AnyRefs ==
    {r \in SeqsUpTo(RefEntries, 0, MaxRefs) :
        \A j \in DOMAIN r, k \in DOMAIN r : r[j].name = r[k].name => j = k}

\* time.yaml of any content
AnyTimes == {[start |-> s, end |-> e, duration |-> e - s] : s \in Stamps, e \in Stamps}

\* a time.yaml that agrees with the csv files
TimeOf(f, i, g) ==
    LET t == BuildTimes(f, i, g)
    IN [start |-> t[1], end |-> t[Len(t)], duration |-> t[Len(t)] - t[1]]

\* ------------------------------------------------------------ the queries
\* the first row of a whose time stamp is s, None without one
ExactRow(a, s) ==
    IF \E k \in DOMAIN a : a[k] = s
    THEN CHOOSE k \in DOMAIN a : a[k] = s /\ \A j \in DOMAIN a : a[j] = s => k <= j
    ELSE None

\* StereoImage.extrapolate(value, shutter, method='exact'): both shutters' images
\* are rows of frames.csv
StereoImageExact(s, shutter) == ExactRow(frames, s)

\* ImuValue.extrapolate(value, method='exact')
ImuValueExact(s) == ExactRow(imu, s)

\* GroundTruth.extrapolate(value, method='exact')
GroundTruthExact(s) == ExactRow(ground_truth, s)

\* variant: the imu and ground truth lookups in each other's field
FindDataForSwapped(s) ==
    [stamp |-> s,
     global_ |-> StereoImageExact(s, "global"),
     rolling |-> StereoImageExact(s, "rolling"),
     imu |-> GroundTruthExact(s),
     groundtruth |-> ImuValueExact(s)]

\* variant: only the images are looked up
FindDataForFramesOnly(s) ==
    [stamp |-> s,
     global_ |-> StereoImageExact(s, "global"),
     rolling |-> StereoImageExact(s, "rolling"),
     imu |-> None,
     groundtruth |-> None]

\* Dataset._find_data_for
FindDataFor(s) ==
    [stamp |-> s,
     global_ |-> StereoImageExact(s, "global"),
     rolling |-> StereoImageExact(s, "rolling"),
     imu |-> ImuValueExact(s),
     groundtruth |-> GroundTruthExact(s)]

\* variant: a half-open range, as Python's slices are
InRangeHalfOpen(t, start, stop) ==
    /\ ~(start # None /\ t < start)
    /\ ~(stop # None /\ t >= stop)

\* the two tests of the loop of _find_data_between: t is not skipped
InRange(t, start, stop) ==
    /\ ~(start # None /\ t < start)
    /\ ~(stop # None /\ t > stop)

\* the index of the next time of self._times, from pos on, that the loop of
\* _find_data_between does not skip; Len(times) + 1 when the loop ends
NextHit(pos, start, stop) ==
    LET hits == {k \in pos..Len(times) : InRange(times[k], start, stop)}
    IN IF hits = {} THEN Len(times) + 1 ELSE SetMin(hits)

\* variant: a time stamp that is not in the timeline is an error
GetItemStampStrict(s) ==
    /\ status = "ready"
    /\ result' = IF s \in ColSet(times)
                 THEN [NoResult EXCEPT !.kind = "Data", !.data = FindDataFor(s)]
                 ELSE [NoResult EXCEPT !.kind = "KeyError"]
    /\ UNCHANGED <<status, frames, imu, ground_truth, times, time, refs, cams, iters>>

\* Dataset.__getitem__(stamp) with a time stamp
GetItemStamp(s) ==
    /\ status = "ready"
    /\ result' = [NoResult EXCEPT !.kind = "Data", !.data = FindDataFor(s)]
    /\ UNCHANGED <<status, frames, imu, ground_truth, times, time, refs, cams, iters>>

NewIter(start, stop) == [state |-> "suspended", start |-> start, stop |-> stop, pos |-> 1, out |-> <<>>]

\* variant: the step is not looked at
GetItemSliceNoStepCheck(i, start, stop, step) ==
    /\ status = "ready"
    /\ iters' = [iters EXCEPT ![i] = NewIter(start, stop)]
    /\ result' = [NoResult EXCEPT !.kind = "generator", !.val = i]
    /\ UNCHANGED <<status, frames, imu, ground_truth, times, time, refs, cams>>

\* variant: a query asked again goes on where its first generator is
GetItemSliceShared(i, start, stop, step) ==
    /\ status = "ready"
    /\ IF step # None
       THEN /\ result' = [NoResult EXCEPT !.kind = "ValueError"]
            /\ UNCHANGED iters
       ELSE /\ iters' = [iters EXCEPT ![i] =
                 IF \E j \in Iters : j # i /\ iters[j].state # "none"
                                     /\ iters[j].start = start /\ iters[j].stop = stop
                 THEN [NewIter(start, stop) EXCEPT !.pos =
                          iters[CHOOSE j \in Iters : j # i /\ iters[j].state # "none"
                                     /\ iters[j].start = start /\ iters[j].stop = stop].pos]
                 ELSE NewIter(start, stop)]
            /\ result' = [NoResult EXCEPT !.kind = "generator", !.val = i]
    /\ UNCHANGED <<status, frames, imu, ground_truth, times, time, refs, cams>>

\* Dataset.__getitem__(stamp) with slice(start, stop, step); the generator it
\* returns is kept in slot i (a generator that was there is abandoned)
GetItemSlice(i, start, stop, step) ==
    /\ status = "ready"
    /\ IF step # None
       THEN /\ result' = [NoResult EXCEPT !.kind = "ValueError"]
            /\ UNCHANGED iters
       ELSE /\ iters' = [iters EXCEPT ![i] = NewIter(start, stop)]
            /\ result' = [NoResult EXCEPT !.kind = "generator", !.val = i]
    /\ UNCHANGED <<status, frames, imu, ground_truth, times, time, refs, cams>>

\* variant: the generator pops what it passed off self._times
PullConsuming(i) ==
    /\ status = "ready"
    /\ iters[i].state = "suspended"
    /\ LET k == NextHit(iters[i].pos, iters[i].start, iters[i].stop)
       IN IF k > Len(times)
          THEN /\ iters' = [iters EXCEPT ![i].state = "done", ![i].pos = k]
               /\ times' = times
          ELSE /\ iters' = [iters EXCEPT ![i].pos = 1,
                                         ![i].out = Append(@, FindDataFor(times[k]))]
               /\ times' = SubSeq(times, k + 1, Len(times))
    /\ UNCHANGED <<status, frames, imu, ground_truth, time, refs, cams, result>>

\* next() on the generator of _find_data_between in slot i: the loop runs to its
\* next yield, or to its end (StopIteration)
Pull(i) ==
    /\ status = "ready"
    /\ iters[i].state = "suspended"
    /\ LET k == NextHit(iters[i].pos, iters[i].start, iters[i].stop)
       IN IF k > Len(times)
          THEN iters' = [iters EXCEPT ![i].state = "done", ![i].pos = k]
          ELSE iters' = [iters EXCEPT ![i].pos = k + 1,
                                      ![i].out = Append(@, FindDataFor(times[k]))]
    /\ UNCHANGED <<status, frames, imu, ground_truth, times, time, refs, cams, result>>

\* the properties times, start, end, duration and raw
ReadTimes ==
    /\ status = "ready"
    /\ result' = [NoResult EXCEPT !.kind = "times", !.list = times]
    /\ UNCHANGED <<status, frames, imu, ground_truth, times, time, refs, cams, iters>>

ReadTime(key) ==
    /\ status = "ready"
    /\ result' = [NoResult EXCEPT !.kind = key, !.val = time[key]]
    /\ UNCHANGED <<status, frames, imu, ground_truth, times, time, refs, cams, iters>>

ReadRaw ==
    /\ status = "ready"
    /\ result' = [NoResult EXCEPT !.kind = "raw"]
    /\ UNCHANGED <<status, frames, imu, ground_truth, times, time, refs, cams, iters>>

\* variant: the first camera decides, whatever its shutter (None without a camera)
RollingShutterSpeedFirstCam ==
    /\ status = "ready"
    /\ result' = IF cams = <<>>
                 THEN [NoResult EXCEPT !.kind = "speed", !.val = None]
                 ELSE [NoResult EXCEPT !.kind = "speed", !.val = cams[1].speed]
    /\ UNCHANGED <<status, frames, imu, ground_truth, times, time, refs, cams, iters>>

\* Dataset.rolling_shutter_speed: the first camera of self._cams with a rolling
\* shutter decides
RollingShutterSpeed ==
    /\ status = "ready"
    /\ LET rolling == {k \in DOMAIN cams : cams[k].type = "rolling"}
       IN result' = IF rolling = {}
                    THEN [NoResult EXCEPT !.kind = "ValueError"]
                    ELSE [NoResult EXCEPT !.kind = "speed", !.val = cams[SetMin(rolling)].speed]
    /\ UNCHANGED <<status, frames, imu, ground_truth, times, time, refs, cams, iters>>

\* ------------------------------------------------------- specifications
\* Spec: a loaded record (the motion capture sampled with the frames) and every
\* facade operation on it, with one generator at a time
Init ==
    \E f \in Streams, i \in Streams :
        Load(f, i, f, TimeOf(f, i, f), DefaultRefs)

Next ==
    \/ \E s \in QueryStamps : GetItemStamp(s)
    \/ \E a \in SliceBounds, b \in SliceBounds, st \in Steps : GetItemSlice(1, a, b, st)
    \/ Pull(1)
    \/ ReadTimes
    \/ \E key \in {"start", "end", "duration"} : ReadTime(key)
    \/ ReadRaw

Spec == Init /\ [][Next]_vars

\* SpecPoint: point queries on a record with three independent streams
InitPoint ==
    \E f \in Streams, i \in Streams, g \in Streams :
        Load(f, i, g, TimeOf(f, i, g), DefaultRefs)

NextPoint == \E s \in QueryStamps : GetItemStamp(s)

SpecPoint == InitPoint /\ [][NextPoint]_vars

\* SpecLoad: the constructor on csv files of any content
InitLoad ==
    \E f \in AnyStreams, i \in AnyStreams, g \in AnyStreams :
        Load(f, i, g, [start |-> 1, end |-> MaxT, duration |-> MaxT - 1], DefaultRefs)

NextLoad == ReadTimes

SpecLoad == InitLoad /\ [][NextLoad]_vars

\* SpecTwo: one range query invoked twice, the two generators pulled in any order
SameQuery(i, a, b) ==
    \A j \in Iters \ {i} :
        iters[j].state = "none" \/ (iters[j].start = a /\ iters[j].stop = b)

NextTwo ==
    \/ \E i \in Iters, a \in SliceBounds, b \in SliceBounds :
          SameQuery(i, a, b) /\ GetItemSlice(i, a, b, None)
    \/ \E i \in Iters : Pull(i)

SpecTwo == Init /\ [][NextTwo]_vars

\* SpecClamp: range queries with an open bound (generator 1) and with the bound
\* of time.yaml in its place (generator 2), on a record whose time.yaml is of any
\* content
InitClamp ==
    \E f \in Streams, i \in Streams, t \in AnyTimes :
        Load(f, i, f, t, DefaultRefs)

NextClamp ==
    \/ \E b \in SliceBounds : GetItemSlice(1, None, b, None)
    \/ \E a \in SliceBounds : GetItemSlice(1, a, None, None)
    \/ \E b \in SliceBounds : GetItemSlice(2, time.start, b, None)
    \/ \E a \in SliceBounds : GetItemSlice(2, a, time.end, None)
    \/ \E i \in Iters : Pull(i)

SpecClamp == InitClamp /\ [][NextClamp]_vars

\* SpecCams: the rolling shutter accessor on a params.yaml of any content
InitCams ==
    \E r \in AnyRefs :
        Load(<<1, 2>>, <<1, 2>>, <<1, 2>>, TimeOf(<<1, 2>>, <<1, 2>>, <<1, 2>>), r)

NextCams == RollingShutterSpeed

SpecCams == InitCams /\ [][NextCams]_vars

\* ---------------------------------------------------------------- claims
InStream(a, t) == \E k \in DOMAIN a : a[k] = t

StampsOf(out) == [k \in DOMAIN out |-> out[k].stamp]

Between(t, a, b) == (a = None \/ a <= t) /\ (b = None \/ t <= b)

\* the times of the timeline between a and b, both included, in timeline order
Expected(a, b) == SelectSeq(times, LAMBDA t : Between(t, a, b))

IsPrefix(p, q) == Len(p) <= Len(q) /\ \A k \in DOMAIN p : p[k] = q[k]

HasField(d) == d.global_ # None \/ d.rolling # None \/ d.imu # None \/ d.groundtruth # None

\* C1: after construction the timeline is strictly increasing (so without a
\* duplicate), holds exactly the time stamps of the three loaded streams, and is
\* empty only when all streams are; the property times returns it.
C1_TimelineIsSortedUnion ==
    status = "ready" =>
        /\ \A k \in 1..(Len(times) - 1) : times[k] < times[k + 1]
        /\ \A t \in 0..(MaxT + 1) :
              InStream(times, t) <=>
                  (InStream(frames, t) \/ InStream(imu, t) \/ InStream(ground_truth, t))
        /\ (times # <<>>) <=> (frames # <<>> \/ imu # <<>> \/ ground_truth # <<>>)
        /\ result.kind = "times" => result.list = times

\* a record with a repeated row, rows out of order, a time stamp shared by two
\* streams and one that only the ground truth has
C1_Witness ==
    /\ status = "ready"
    /\ result.kind = "times"
    /\ frames[1] = frames[2]
    /\ imu[1] > imu[2]
    /\ \E t \in Stamps : InStream(frames, t) /\ InStream(imu, t)
    /\ \E t \in Stamps : InStream(ground_truth, t) /\ ~InStream(frames, t) /\ ~InStream(imu, t)

\* C2: a range query consumed to its end has yielded one record per time of the
\* timeline with start <= t <= stop (an open bound not restricting), in ascending
\* order, each with stamp = t, and nothing else; while it runs it has yielded a
\* prefix of that.
C2_RangeInclusive ==
    \A i \in Iters :
        /\ iters[i].state = "done" =>
              StampsOf(iters[i].out) = Expected(iters[i].start, iters[i].stop)
        /\ iters[i].state = "suspended" =>
              IsPrefix(StampsOf(iters[i].out), Expected(iters[i].start, iters[i].stop))

\* a finished query whose stop is a time of the timeline, which it yielded last,
\* with a time before start and a time after stop in the timeline
C2_Witness ==
    \E i \in Iters :
        /\ iters[i].state = "done"
        /\ iters[i].start # None /\ iters[i].stop # None
        /\ InStream(times, iters[i].stop)
        /\ \E k \in DOMAIN times : times[k] < iters[i].start
        /\ \E k \in DOMAIN times : times[k] > iters[i].stop
        /\ iters[i].out # <<>>
        /\ iters[i].out[Len(iters[i].out)].stamp = iters[i].stop

StepRejected ==
    /\ result'.kind = "ValueError"
    /\ iters' = iters
    /\ UNCHANGED <<status, frames, imu, ground_truth, times, time, refs, cams>>

\* C4: in every state of a loaded record, whatever generators exist and however
\* far they got, a slice with a step (any start and stop) can be evaluated and
\* has no other outcome than ValueError raised by __getitem__ itself, with no
\* generator made or changed and the dataset unchanged.
C4_StepRejectedAtCall ==
    status = "ready" =>
        \A i \in Iters, a \in SliceBounds, b \in SliceBounds, st \in Steps \ {None} :
            /\ ENABLED GetItemSlice(i, a, b, st)
            /\ ~ENABLED (GetItemSlice(i, a, b, st) /\ ~StepRejected)

\* the step was rejected while a generator was half consumed, which is still so
C4_Witness ==
    /\ result.kind = "ValueError"
    /\ iters[1].state = "suspended"
    /\ Len(iters[1].out) = 1
    /\ Len(Expected(iters[1].start, iters[1].stop)) > 1

\* C5: dataset[:b] yields what dataset[dataset.start:b] yields, and dataset[a:]
\* what dataset[a:dataset.end] yields.
C5_OpenBoundClamped ==
    \A i \in Iters, j \in Iters :
        (iters[i].state = "done" /\ iters[j].state = "done") =>
            /\ (iters[i].start = None /\ iters[j].start = time.start
                /\ iters[i].stop = iters[j].stop) => iters[i].out = iters[j].out
            /\ (iters[i].stop = None /\ iters[j].stop = time.end
                /\ iters[i].start = iters[j].start) => iters[i].out = iters[j].out

\* C6: two generators of the same range query yield the same records in the same
\* order, each from the first time in range on, whatever the order of the pulls
\* and however far the other one got.
C6_RangeRestartable ==
    \A i \in Iters, j \in Iters :
        (/\ i # j
         /\ iters[i].state # "none" /\ iters[j].state # "none"
         /\ iters[i].start = iters[j].start /\ iters[i].stop = iters[j].stop) =>
            /\ \A k \in DOMAIN iters[i].out \cap DOMAIN iters[j].out :
                  iters[i].out[k] = iters[j].out[k]
            /\ (iters[i].state = "done" /\ iters[j].state = "done") =>
                  iters[i].out = iters[j].out
            /\ iters[i].out # <<>> =>
                  /\ Expected(iters[i].start, iters[i].stop) # <<>>
                  /\ iters[i].out[1].stamp = Expected(iters[i].start, iters[i].stop)[1]

\* one generator consumed to its end, the other one of the same query left after
\* its first record
C6_Witness ==
    \E i \in Iters, j \in Iters :
        /\ i # j
        /\ iters[i].start = iters[j].start /\ iters[i].stop = iters[j].stop
        /\ iters[i].state = "done" /\ Len(iters[i].out) >= 2
        /\ iters[j].state = "suspended" /\ Len(iters[j].out) = 1

\* C7: a point query at any s returns a record with stamp = s, never an error; a
\* modality without a sample at s is None in it, so all four are when no stream
\* has s.
C7_PointNeverRaises ==
    [][\A s \in QueryStamps :
          GetItemStamp(s) =>
              /\ result'.kind = "Data"
              /\ result'.data.stamp = s
              /\ ~InStream(frames, s) => (result'.data.global_ = None /\ result'.data.rolling = None)
              /\ ~InStream(imu, s) => result'.data.imu = None
              /\ ~InStream(ground_truth, s) => result'.data.groundtruth = None]_vars

\* a query after the last sample of every stream
C7_Witness ==
    /\ result.kind = "Data"
    /\ result.data.stamp > times[Len(times)]
    /\ ~HasField(result.data)

IsRollingCam(r) == r.name # "world" /\ r.hasShutter /\ r.type = "rolling"

\* C9: rolling_shutter_speed returns the speed of a configured camera with shutter
\* type 'rolling' when there is one, and raises ValueError when there is none.
C9_RollingSpeedOrValueError ==
    result.kind # "none" =>
        IF \E k \in DOMAIN refs : IsRollingCam(refs[k])
        THEN /\ result.kind = "speed"
             /\ \E k \in DOMAIN refs : IsRollingCam(refs[k]) /\ result.val = refs[k].speed
        ELSE result.kind = "ValueError"

\* the speed was returned with a global shutter camera configured before the
\* rolling shutter one
C9_Witness ==
    /\ result.kind = "speed"
    /\ Len(cams) >= 2
    /\ cams[1].type = "global"
    /\ cams[2].type = "rolling"
    /\ result.val = cams[2].speed

\* C10: no facade operation changes the timeline or a stream.
C10_FacadeReadOnly ==
    [][/\ times' = times
       /\ frames' = frames
       /\ imu' = imu
       /\ ground_truth' = ground_truth]_vars

\* a point query was answered after a range query had yielded two records
C10_Witness ==
    /\ result.kind = "Data"
    /\ iters[1].state = "suspended"
    /\ Len(iters[1].out) = 2
    /\ times = BuildTimes(frames, imu, ground_truth)

====
